---- MODULE Spec2Model ----
(***************************************************************************)
(* Version resolution of sweet-release (package version, generator.go):    *)
(* NewGenerator gathers the facts of a repository (working-tree status,    *)
(* head branch, target commit, root commit, version file, tags) and        *)
(* Generate turns them into a Version record.                              *)
(*                                                                         *)
(* Text (branch names, tag names, file contents, hashes) is a sequence of  *)
(* one-character strings, so that trimming, splitting, case folding and    *)
(* semantic-version parsing are computed, not assumed.                     *)
(***************************************************************************)
EXTENDS Integers, Sequences, FiniteSets, TLC

(***************************************************************************)
(* Text helpers (package strings / bytes as used by the code).             *)
(***************************************************************************)
Digits == <<"0", "1", "2", "3", "4", "5", "6", "7", "8", "9">>

UpperCase == <<"A", "B", "C", "D", "E", "F", "G", "H", "I", "J", "K", "L", "M",
               "N", "O", "P", "Q", "R", "S", "T", "U", "V", "W", "X", "Y", "Z">>

LowerCase == <<"a", "b", "c", "d", "e", "f", "g", "h", "i", "j", "k", "l", "m",
               "n", "o", "p", "q", "r", "s", "t", "u", "v", "w", "x", "y", "z">>

\* Byte order of the characters the model uses (ASCII order).
Ascii == <<"\n", " ", "+", "-", ".", "/">> \o Digits \o UpperCase \o <<"_">> \o LowerCase

Range(s) == {s[i] : i \in 1..Len(s)}

IsDigit(c) == c \in Range(Digits)

IsAlphaNum(c) == c \in Range(Digits) \cup Range(UpperCase) \cup Range(LowerCase) \cup {"-"}

DigitVal(c) == (CHOOSE i \in 1..Len(Digits) : Digits[i] = c) - 1

Code(c) == CHOOSE i \in 1..Len(Ascii) : Ascii[i] = c

ToLower(c) ==
    IF c \in Range(UpperCase)
    THEN LowerCase[CHOOSE i \in 1..Len(UpperCase) : UpperCase[i] = c]
    ELSE c

\* strings.EqualFold: equality under simple case folding.
EqualFold(s, t) ==
    /\ Len(s) = Len(t)
    /\ \A i \in 1..Len(s) : ToLower(s[i]) = ToLower(t[i])

IsSpace(c) == c \in {" ", "\n"}

RECURSIVE TrimLeftSpace(_)
TrimLeftSpace(s) ==
    IF s # <<>> /\ IsSpace(Head(s)) THEN TrimLeftSpace(Tail(s)) ELSE s

RECURSIVE TrimRightSpace(_)
TrimRightSpace(s) ==
    IF s # <<>> /\ IsSpace(s[Len(s)])
    THEN TrimRightSpace(SubSeq(s, 1, Len(s) - 1))
    ELSE s

\* strings.TrimSpace / bytes.TrimSpace
TrimSpace(s) == TrimRightSpace(TrimLeftSpace(s))

\* strings.TrimPrefix(s, "v")
TrimPrefixV(s) == IF s # <<>> /\ Head(s) = "v" THEN Tail(s) ELSE s

\* strings.TrimLeft(s, "0")
RECURSIVE TrimLeftZeros(_)
TrimLeftZeros(s) ==
    IF s # <<>> /\ Head(s) = "0" THEN TrimLeftZeros(Tail(s)) ELSE s

\* strings.IndexRune: the first position of c in s, 0 when absent.
IndexOf(s, c) ==
    IF c \in Range(s)
    THEN CHOOSE i \in 1..Len(s) : s[i] = c /\ \A j \in 1..(i - 1) : s[j] # c
    ELSE 0

\* strings.Split(s, "."): every piece, empty pieces included.
RECURSIVE Split(_)
Split(s) ==
    LET i == IndexOf(s, ".")
    IN  IF i = 0
        THEN <<s>>
        ELSE <<SubSeq(s, 1, i - 1)>> \o Split(SubSeq(s, i + 1, Len(s)))

\* strings.SplitN(s, ".", n): at most n pieces, the last one unsplit.
RECURSIVE SplitN(_, _)
SplitN(s, n) ==
    LET i == IndexOf(s, ".")
    IN  IF n <= 1 \/ i = 0
        THEN <<s>>
        ELSE <<SubSeq(s, 1, i - 1)>> \o SplitN(SubSeq(s, i + 1, Len(s)), n - 1)

\* strings.Join(parts, ".")
RECURSIVE Join(_)
Join(parts) ==
    IF Len(parts) = 0 THEN <<>>
    ELSE IF Len(parts) = 1 THEN parts[1]
    ELSE parts[1] \o <<".">> \o Join(Tail(parts))

\* strconv.ParseUint of a string of digits.
RECURSIVE ParseUint(_)
ParseUint(s) ==
    IF s = <<>> THEN 0
    ELSE 10 * ParseUint(SubSeq(s, 1, Len(s) - 1)) + DigitVal(s[Len(s)])

\* Byte-wise comparison of two strings: -1, 0 or 1.
RECURSIVE StrCompare(_, _)
StrCompare(s, t) ==
    IF s = <<>> /\ t = <<>> THEN 0
    ELSE IF s = <<>> THEN 0 - 1
    ELSE IF t = <<>> THEN 1
    ELSE IF Code(Head(s)) < Code(Head(t)) THEN 0 - 1
    ELSE IF Code(Head(s)) > Code(Head(t)) THEN 1
    ELSE StrCompare(Tail(s), Tail(t))

(***************************************************************************)
(* Semantic versions (github.com/blang/semver/v4 as called by the code).   *)
(* A parse result is <<>> on error and <<v>> on success.                   *)
(***************************************************************************)
OnlyDigits(s) == \A i \in 1..Len(s) : IsDigit(s[i])

HasLeadingZeroes(s) == Len(s) > 1 /\ s[1] = "0"

\* semver.NewPRVersion: one pre-release identifier.
NewPRVersion(s) ==
    IF s = <<>> THEN <<>>
    ELSE IF OnlyDigits(s)
    THEN IF HasLeadingZeroes(s) THEN <<>>
         ELSE <<[VersionStr |-> <<>>, VersionNum |-> ParseUint(s), IsNum |-> TRUE]>>
    ELSE IF \A i \in 1..Len(s) : IsAlphaNum(s[i])
    THEN <<[VersionStr |-> s, VersionNum |-> 0, IsNum |-> FALSE]>>
    ELSE <<>>

\* semver.NewBuildVersion: one build-metadata identifier.
NewBuildVersion(s) ==
    IF s # <<>> /\ \A i \in 1..Len(s) : IsAlphaNum(s[i]) THEN <<s>> ELSE <<>>

\* semver.Parse
Parse(s) ==
    LET parts == SplitN(s, 3)
    IN  IF s = <<>> \/ Len(parts) # 3 THEN <<>>
        ELSE
        LET bi       == IndexOf(parts[3], "+")
            build    == IF bi = 0 THEN <<>>
                        ELSE Split(SubSeq(parts[3], bi + 1, Len(parts[3])))
            noBuild  == IF bi = 0 THEN parts[3] ELSE SubSeq(parts[3], 1, bi - 1)
            pi       == IndexOf(noBuild, "-")
            pre      == IF pi = 0 THEN <<>>
                        ELSE Split(SubSeq(noBuild, pi + 1, Len(noBuild)))
            patchStr == IF pi = 0 THEN noBuild ELSE SubSeq(noBuild, 1, pi - 1)
            numOK(p) == p # <<>> /\ OnlyDigits(p) /\ ~HasLeadingZeroes(p)
        IN  IF  /\ numOK(parts[1])
                /\ numOK(parts[2])
                /\ numOK(patchStr)
                /\ \A i \in 1..Len(pre) : NewPRVersion(pre[i]) # <<>>
                /\ \A i \in 1..Len(build) : NewBuildVersion(build[i]) # <<>>
            THEN <<[Major |-> ParseUint(parts[1]),
                    Minor |-> ParseUint(parts[2]),
                    Patch |-> ParseUint(patchStr),
                    Pre   |-> [i \in 1..Len(pre) |-> NewPRVersion(pre[i])[1]],
                    Build |-> build]>>
            ELSE <<>>

\* semver.ParseTolerant: trims space, drops a leading "v", strips leading
\* zeroes of the numeric parts and pads a short version with ".0".
ParseTolerant(str) ==
    LET s     == TrimPrefixV(TrimSpace(str))
        raw   == SplitN(s, 3)
        fix(p) == IF Len(p) > 1
                  THEN LET q == TrimLeftZeros(p)
                       IN  IF q = <<>> \/ ~IsDigit(q[1]) THEN <<"0">> \o q ELSE q
                  ELSE p
        parts == [i \in 1..Len(raw) |-> fix(raw[i])]
        last  == parts[Len(parts)]
    IN  IF Len(parts) < 3 /\ ("+" \in Range(last) \/ "-" \in Range(last))
        THEN <<>>
        ELSE Parse(Join(parts \o [i \in 1..(3 - Len(parts)) |-> <<"0">>]))

\* PRVersion.Compare
PRCompare(a, b) ==
    IF a.IsNum /\ ~b.IsNum THEN 0 - 1
    ELSE IF ~a.IsNum /\ b.IsNum THEN 1
    ELSE IF a.IsNum
    THEN IF a.VersionNum = b.VersionNum THEN 0
         ELSE IF a.VersionNum > b.VersionNum THEN 1 ELSE 0 - 1
    ELSE StrCompare(a.VersionStr, b.VersionStr)

RECURSIVE PreCompare(_, _)
PreCompare(p, q) ==
    IF p = <<>> /\ q = <<>> THEN 0
    ELSE IF p = <<>> THEN 0 - 1
    ELSE IF q = <<>> THEN 1
    ELSE IF PRCompare(Head(p), Head(q)) # 0 THEN PRCompare(Head(p), Head(q))
    ELSE PreCompare(Tail(p), Tail(q))

\* Version.Compare: precedence; build metadata takes no part.
Compare(v, o) ==
    IF v.Major # o.Major THEN (IF v.Major > o.Major THEN 1 ELSE 0 - 1)
    ELSE IF v.Minor # o.Minor THEN (IF v.Minor > o.Minor THEN 1 ELSE 0 - 1)
    ELSE IF v.Patch # o.Patch THEN (IF v.Patch > o.Patch THEN 1 ELSE 0 - 1)
    ELSE IF v.Pre = <<>> /\ o.Pre = <<>> THEN 0
    ELSE IF v.Pre = <<>> THEN 1
    ELSE IF o.Pre = <<>> THEN 0 - 1
    ELSE PreCompare(v.Pre, o.Pre)

\* Version.GT
GT(v, o) == Compare(v, o) = 1

\* fmt.Sprintf("%d", n)
RECURSIVE FormatNat(_)
FormatNat(n) ==
    IF n < 10 THEN <<Digits[n + 1]>>
    ELSE FormatNat(n \div 10) \o <<Digits[(n % 10) + 1]>>

FormatInt(n) == IF n < 0 THEN <<"-">> \o FormatNat(0 - n) ELSE FormatNat(n)

\* PRVersion.String
PRString(p) == IF p.IsNum THEN FormatNat(p.VersionNum) ELSE p.VersionStr

(***************************************************************************)
(* Arithmetic of the build ordinal.                                        *)
(***************************************************************************)
secondsYear == 60 * 60 * 24 * 365

\* <<q, r>> with a * m = q * y + r and 0 <= r < y, for a, m >= 0 and y > 0,
\* by doubling, so that no intermediate value exceeds 2 * y + a and the
\* product a * m, which takes more than 32 bits, is never formed.
RECURSIVE MulDivMod(_, _, _)
MulDivMod(a, m, y) ==
    IF m = 0 THEN <<0, 0>>
    ELSE LET h  == MulDivMod(a, m \div 2, y)
             r2 == 2 * h[2]
             q2 == 2 * h[1] + (r2 \div y)
             r3 == (r2 % y) + (IF m % 2 = 1 THEN a % y ELSE 0)
             q3 == q2 + (IF m % 2 = 1 THEN a \div y ELSE 0) + (r3 \div y)
         IN  <<q3, r3 % y>>

Abs(n) == IF n < 0 THEN 0 - n ELSE n

\* Go's a * m / y on int64: the quotient truncated toward zero.
TruncMulDiv(a, m, y) ==
    LET q == MulDivMod(Abs(a), Abs(m), y)[1]
    IN  IF (a < 0) # (m < 0) THEN 0 - q ELSE q

(***************************************************************************)
(* The repository (go-git as queried by the code) and the configuration.   *)
(***************************************************************************)
VARIABLES
    statusClean,    \* wt.Status().IsClean()
    headBranch,     \* short name of the reference HEAD points to
    headCommit,     \* hash HEAD resolves to
    commits,        \* hash -> [When, Parents]: the commit objects
    tagRefs,        \* the tag references in the order repo.Tags() yields them
    readErr,        \* positions of tagRefs at which tags.Next() returns an
                    \* error other than io.EOF
    versionFile,    \* <<>>: no such file; <<bytes>>: its contents
    loopVarShared,  \* the build shares one loop variable per for statement
                    \* (Go before 1.22); FALSE: one variable per round
    args,           \* configurations of the invocations still to run
    conf,           \* Config of the running invocation
    gen,            \* the Generator under construction
    pc,             \* position of the running invocation
    tagIdx,         \* tags yielded so far by the iterator of getVersionByTag
    nextCalls,      \* calls of tags.Next() made so far by getVersionByTag
    cctag,          \* getVersionByTag's cctag
    svts,           \* getVersionByTag's map hash -> version
    out             \* results returned so far, one per invocation

repoVars == <<statusClean, headBranch, headCommit, commits, tagRefs, readErr,
              versionFile, loopVarShared>>

tagVars == <<tagIdx, nextCalls, cctag, svts>>

vars == <<statusClean, headBranch, headCommit, commits, tagRefs, readErr,
          versionFile, loopVarShared, args, conf, gen, pc, tagIdx, nextCalls, cctag, svts,
          out>>

\* Hashes, as hexadecimal text.
H1 == <<"a", "1", "0", "0", "0", "0", "0", "1", "f">>
H2 == <<"b", "2", "0", "0", "0", "0", "0", "2", "f">>
H3 == <<"c", "3", "0", "0", "0", "0", "0", "3", "f">>
ZeroHash == <<"0", "0", "0", "0", "0", "0", "0", "0", "0">>

\* A nil pointer, and the zero time.Time, are the empty sequence; a set
\* pointer or time is a one-element sequence (a hash is kept as its text).
Nil == <<>>

HEAD == <<"H", "E", "A", "D">>

\* A store that answers the zero hash with an empty commit instead of an error.
CommitObjectZero(h) ==
    IF h \in DOMAIN commits THEN <<commits[h]>> ELSE <<[When |-> 0, Parents |-> {}]>>

\* repo.CommitObject: <<commit>>, or <<>> for "object not found".
CommitObject(h) == IF h \in DOMAIN commits THEN <<commits[h]>> ELSE <<>>

\* repo.ResolveRevision: HEAD or a full hash; <<>> when it does not resolve.
ResolveRevision(rev) ==
    IF rev = HEAD THEN <<headCommit>>
    ELSE IF CommitObject(rev) # <<>> THEN <<rev>>
    ELSE <<>>

\* time.Time.Before with the zero time before every commit time.
Before(t, u) ==
    IF u = Nil THEN FALSE
    ELSE IF t = Nil THEN TRUE
    ELSE t[1] < u[1]

\* The commit the committer-time walk pops next: the most recent of the
\* frontier (the hash text breaks ties).
Latest(frontier) ==
    CHOOSE c \in frontier :
        \A d \in frontier :
            \/ commits[d].When < commits[c].When
            \/ commits[d].When = commits[c].When /\ StrCompare(d, c) <= 0

\* object.NewCommitIterCTime: the history of a set of commits, most recent
\* committer time first, a parent only after a child of it.
RECURSIVE WalkCTime(_, _)
WalkCTime(frontier, seen) ==
    IF frontier \subseteq seen THEN <<>>
    ELSE LET c == Latest(frontier \ seen)
         IN  <<c>> \o WalkCTime((frontier \cup commits[c].Parents) \ {c},
                                seen \cup {c})

\* repo.Log(All, LogOrderCommitterTime): the head's history, then what the
\* other references add to it, reference by reference.
RECURSIVE WalkRefs(_, _)
WalkRefs(refs, seen) ==
    IF refs = <<>> THEN <<>>
    ELSE LET w == IF Head(refs) \in DOMAIN commits
                  THEN WalkCTime({Head(refs)}, seen)
                  ELSE <<>>
         IN  w \o WalkRefs(Tail(refs), seen \cup Range(w))

LogAll == WalkRefs(<<headCommit>> \o [i \in 1..Len(tagRefs) |-> tagRefs[i].Hash], {})

\* repo.Log(Since): the commits of the head's history not before `from`.
LogSince(from) ==
    {c \in Range(WalkCTime({headCommit}, {})) : ~Before(<<commits[c].When>>, from)}

(***************************************************************************)
(* The Generator.                                                          *)
(***************************************************************************)
NewGen ==
    [Branch |-> <<>>, SemVer |-> Nil, CurrentCommit |-> Nil, VersionCommit |-> Nil,
     InitialCommit |-> Nil, InitialCommitDate |-> Nil, CurrentCommitDate |-> Nil,
     VersionCommitDate |-> Nil, CommitCount |-> 0, IsSnapshot |-> FALSE,
     IsPre |-> FALSE, PreChannel |-> <<>>, PreRev |-> 0]

NoConf ==
    [Revision |-> HEAD, TimeMultiplier |-> 0, AddSnapshot |-> FALSE,
     FromFile |-> FALSE, FromTag |-> FALSE, StableBranches |-> <<>>]

\* New / NewGenerator return (nil, err): the invocation is over.
Fail(msg) ==
    /\ out' = Append(out, [Err |-> msg, Version |-> Nil])
    /\ pc' = "idle"
    /\ gen' = NewGen

\* A caller invokes version.New(conf) with the next configuration.
Start ==
    /\ pc = "idle"
    /\ args # <<>>
    /\ conf' = Head(args)
    /\ args' = Tail(args)
    /\ gen' = NewGen
    /\ pc' = "NewGenerator"
    /\ tagIdx' = 0
    /\ nextCalls' = 0
    /\ cctag' = <<>>
    /\ svts' = <<>>
    /\ UNCHANGED <<repoVars, out>>

\* The gate without its error return: a dirty tree always becomes a snapshot.
CleanlinessGateNoError(clean, addSnapshot) ==
    [err |-> FALSE, IsSnapshot |-> ~clean]

\* The gate without the assignment gen.IsSnapshot = true.
CleanlinessGateNoMark(clean, addSnapshot) ==
    [err |-> ~clean /\ ~addSnapshot, IsSnapshot |-> FALSE]

\* The cleanliness gate of NewGenerator: whether it returns the error, and
\* the IsSnapshot it leaves otherwise.
CleanlinessGate(clean, addSnapshot) ==
    [err |-> ~clean /\ ~addSnapshot, IsSnapshot |-> ~clean]

\* NewGenerator up to the cleanliness gate.
NewGenerator ==
    /\ pc = "NewGenerator"
    /\ IF CleanlinessGate(statusClean, conf.AddSnapshot).err
       THEN Fail("repository is not clean and add snapshot config is false")
       ELSE /\ gen' = [gen EXCEPT !.IsSnapshot =
                          CleanlinessGate(statusClean, conf.AddSnapshot).IsSnapshot]
            /\ pc' = "getBranch"
            /\ out' = out
    /\ UNCHANGED <<repoVars, args, conf, tagVars>>

\* The loop of getBranch comparing with == instead of strings.EqualFold.
IsStableCaseSensitive(branch, stable) ==
    \E i \in 1..Len(stable) : branch = stable[i]

\* The loop of getBranch over Conf.StableBranches.
IsStable(branch, stable) ==
    \E i \in 1..Len(stable) : EqualFold(branch, stable[i])

getBranch ==
    /\ pc = "getBranch"
    /\ gen' = [gen EXCEPT
                 !.Branch = headBranch,
                 !.IsPre = ~IsStable(headBranch, conf.StableBranches)]
    /\ pc' = "getCurrentCommit"
    /\ UNCHANGED <<repoVars, args, conf, tagVars, out>>

getCurrentCommit ==
    /\ pc = "getCurrentCommit"
    /\ LET cch == ResolveRevision(conf.Revision)
       IN  IF cch = <<>>
           THEN Fail("reference not found")
           ELSE /\ gen' = [gen EXCEPT
                             !.CurrentCommit = cch,
                             !.CurrentCommitDate = <<CommitObject(cch[1])[1].When>>]
                /\ pc' = "getInitialCommit"
                /\ out' = out
    /\ UNCHANGED <<repoVars, args, conf, tagVars>>

\* The last commit without parents that the walk visits, <<>> when none.
RECURSIVE LastRoot(_)
LastRoot(log) ==
    IF log = <<>> THEN <<>>
    ELSE IF commits[log[Len(log)]].Parents = {} THEN <<log[Len(log)]>>
    ELSE LastRoot(SubSeq(log, 1, Len(log) - 1))

getInitialCommit ==
    /\ pc = "getInitialCommit"
    /\ LET root == LastRoot(LogAll)
       IN  gen' = [gen EXCEPT
                     !.InitialCommit = root,
                     !.InitialCommitDate =
                         IF root = <<>> THEN Nil ELSE <<commits[root[1]].When>>,
                     !.CommitCount = Len(LogAll)]
    /\ pc' = "getVersion"
    /\ UNCHANGED <<repoVars, args, conf, tagVars, out>>

\* getVersionFile: [err, sv], sv the version parsed from the file.
getVersionFile ==
    IF versionFile = <<>> THEN [err |-> FALSE, sv |-> Nil]
    ELSE LET sv == ParseTolerant(TrimSpace(versionFile[1]))
         IN  [err |-> sv = <<>>, sv |-> sv]

\* getVersion with the early return dropped: the tags are always consulted.
SkipTagLookupNever(sv, fromTag) == FALSE

\* getVersion returns without looking at the tags.
SkipTagLookup(sv, fromTag) == sv # Nil /\ ~fromTag

getVersion ==
    /\ pc = "getVersion"
    /\ LET f == getVersionFile
       IN  IF f.err /\ conf.FromFile
           THEN Fail("invalid version file") /\ UNCHANGED tagVars
           ELSE IF SkipTagLookup(f.sv, conf.FromTag)
           THEN /\ gen' = [gen EXCEPT !.SemVer = f.sv]
                /\ pc' = "Generate"
                /\ UNCHANGED <<tagVars, out>>
           ELSE /\ gen' = [gen EXCEPT !.SemVer = f.sv]
                /\ pc' = "tagsNext"
                /\ nextCalls' = 0
                /\ tagIdx' = 0
                /\ cctag' = <<>>
                /\ svts' = <<>>
                /\ out' = out
    /\ UNCHANGED <<repoVars, args, conf>>

\* The iterator's position after a Next() that returned an error other than
\* io.EOF: the iterator stays where it is.
NextAfterErrorStuck(idx) == idx

\* The iterator's position after a Next() that returned an error other than
\* io.EOF: go-git's reference iterators move on before they return, so the
\* next call reads the following reference.
NextAfterError(idx) == idx + 1

\* One round of the loop of getVersionByTag: tags.Next() and its body.
tagsNext ==
    /\ pc = "tagsNext"
    /\ nextCalls' = nextCalls + 1
    /\ IF tagIdx = Len(tagRefs)
       THEN /\ pc' = "getVersionByTag"
            /\ UNCHANGED <<tagIdx, cctag, svts>>
       ELSE IF tagIdx + 1 \in readErr
       THEN /\ tagIdx' = NextAfterError(tagIdx)
            /\ pc' = "tagsNext"
            /\ UNCHANGED <<cctag, svts>>
       ELSE LET tag == tagRefs[tagIdx + 1]
                ver == ParseTolerant(tag.Name)
            IN  /\ tagIdx' = tagIdx + 1
                /\ IF <<tag.Hash>> = gen.CurrentCommit
                   THEN /\ cctag' = tag.Name
                        /\ svts' = svts
                        /\ pc' = "getVersionByTag"
                   ELSE /\ cctag' = cctag
                        /\ svts' = IF ver = <<>> THEN svts
                                   ELSE [h \in DOMAIN svts \cup {tag.Hash} |->
                                           IF h = tag.Hash THEN ver[1] ELSE svts[h]]
                        /\ pc' = "tagsNext"
    /\ UNCHANGED <<repoVars, args, conf, gen, out>>

\* The orders in which a range over the map may yield its keys.
Orders(S) ==
    {o \in [1..Cardinality(S) -> S] : \A i, j \in 1..Cardinality(S) : o[i] = o[j] => i = j}

\* The loop "for h, t := range svts" of getVersionByTag over the keys in
\* the order `order`: [vh, latest], latest = <<>> for a nil pointer. With a
\* loop variable shared by all rounds, latest = &t points at the variable
\* every round assigns, so *latest is the current t: t.GT(*latest) is false
\* and the pointer ends at the last pair's version.
RECURSIVE RangeLatest(_, _, _, _)
RangeLatest(order, m, shared, acc) ==
    IF order = <<>> THEN acc
    ELSE LET h    == Head(order)
             t    == m[h]
             a1   == IF acc.latest = <<>> THEN [vh |-> h, latest |-> <<t>>]
                     ELSE IF shared THEN [vh |-> acc.vh, latest |-> <<t>>]
                     ELSE acc
             a2   == IF GT(t, a1.latest[1]) THEN [vh |-> h, latest |-> <<t>>] ELSE a1
         IN  RangeLatest(Tail(order), m, shared, a2)

\* getVersionByTag after its loop.
getVersionByTag ==
    /\ pc = "getVersionByTag"
    /\ LET sv == IF cctag = <<>> THEN <<>> ELSE ParseTolerant(cctag)
       IN  IF sv # <<>>
           THEN /\ gen' = [gen EXCEPT
                             !.VersionCommit = gen.CurrentCommit,
                             !.VersionCommitDate = gen.CurrentCommitDate,
                             !.SemVer = sv]
                /\ pc' = "Generate"
                /\ out' = out
           ELSE IF conf.FromTag /\ ~conf.AddSnapshot
           THEN Fail("could not find tag for commit")
           ELSE IF DOMAIN svts = {} /\ conf.FromTag
           THEN Fail("could not find version tag for SNAPSHOT")
           ELSE \E order \in Orders(DOMAIN svts) :
                  LET r == RangeLatest(order, svts, loopVarShared,
                                       [vh |-> ZeroHash, latest |-> <<>>])
                      vc == CommitObject(r.vh)
                  IN  IF vc = <<>>
                      THEN Fail("object not found")
                      ELSE /\ gen' = [gen EXCEPT
                                        !.IsSnapshot = TRUE,
                                        !.VersionCommit = <<r.vh>>,
                                        !.VersionCommitDate = <<vc[1].When>>,
                                        !.SemVer = r.latest]
                           /\ pc' = "Generate"
                           /\ out' = out
    /\ UNCHANGED <<repoVars, args, conf, tagVars>>

\* getCommitCountFrom
getCommitCountFrom(from) == Cardinality(LogSince(from))

\* The build ordinal with the time units subtracted.
BuildOrdinalSubtract(g, multiplier) ==
    LET cdiff == g.CurrentCommitDate[1] - g.InitialCommitDate[1]
        tf    == TruncMulDiv(cdiff, multiplier, secondsYear)
    IN  g.CommitCount - tf

\* The build ordinal of Generate.
BuildOrdinal(g, multiplier) ==
    LET cdiff == g.CurrentCommitDate[1] - g.InitialCommitDate[1]
        tf    == TruncMulDiv(cdiff, multiplier, secondsYear)
    IN  g.CommitCount + tf

\* version.New after NewGenerator returned the generator: Generate.
Generate ==
    /\ pc = "Generate"
    /\ LET rev   == BuildOrdinal(gen, conf.TimeMultiplier)
           ssha  == SubSeq(gen.CurrentCommit[1], 1, 7)
           pre   == NewPRVersion(gen.Branch)
           sv    == gen.SemVer[1]
           pres  == IF gen.IsPre THEN Append(sv.Pre, pre[1]) ELSE sv.Pre
           build == <<<<"r", "e", "v">>, FormatInt(rev)>> \o
                    (IF gen.IsSnapshot
                     THEN <<NewBuildVersion(<<"S", "N", "A", "P", "S", "H", "O", "T">>)[1],
                            FormatInt(getCommitCountFrom(gen.VersionCommitDate))>>
                     ELSE <<>>)
       IN  IF gen.IsPre /\ pre = <<>>
           THEN Fail("Invalid character(s) found in prerelease")
           ELSE /\ gen' = [gen EXCEPT !.SemVer = <<[sv EXCEPT !.Pre = pres, !.Build = build]>>]
                /\ out' = Append(out,
                     [Err |-> "",
                      Version |-> <<[Branch      |-> gen.Branch,
                                     Commit      |-> gen.CurrentCommit[1],
                                     ShortCommit |-> ssha,
                                     Semver      |-> [sv EXCEPT !.Pre = pres, !.Build = build],
                                     BuildID     |-> rev]>>])
                /\ pc' = "idle"
    /\ UNCHANGED <<repoVars, args, conf, tagVars>>

Next ==
    \/ Start
    \/ NewGenerator
    \/ getBranch
    \/ getCurrentCommit
    \/ getInitialCommit
    \/ getVersion
    \/ tagsNext
    \/ getVersionByTag
    \/ Generate

(***************************************************************************)
(* Initial states: the repositories and configurations resolved.           *)
(***************************************************************************)
MaxTags == 2

MaxRepeatTags == 4

MaxHalfYears == 2

Master  == <<"m", "a", "s", "t", "e", "r">>
MainUC  == <<"M", "a", "i", "n">>
Dev     == <<"d", "e", "v">>
Feature == <<"f", "e", "a", "t", "u", "r", "e", "/", "x">>
Build7  == <<"0", "0", "7">>

\* viper.SetDefault("stable-branches", ...)
DefaultStable ==
    <<Master, <<"m", "a", "i", "n">>, <<"s", "t", "a", "b", "l", "e">>,
      <<"r", "e", "l", "e", "a", "s", "e">>>>

V100   == <<"v", "1", ".", "0", ".", "0">>
V120   == <<"v", "1", ".", "2", ".", "0">>
V130   == <<"v", "1", ".", "3", ".", "0">>
LatestTag == <<"l", "a", "t", "e", "s", "t">>

FileBeta    == <<"2", ".", "0", ".", "0", "-", "b", "e", "t", "a", "\n">>
FileRelease == <<"v", "2", ".", "1">>
FileGarbage == <<"n", "o", "n", "e">>

Day == 60 * 60 * 24

\* The linear history H1 <- H2 <- H3 with the given committer times.
LinearHistory(t1, t2, t3) ==
    (H1 :> [When |-> t1, Parents |-> {}]) @@
    (H2 :> [When |-> t2, Parents |-> {H1}]) @@
    (H3 :> [When |-> t3, Parents |-> {H2}])

\* Two unrelated root commits H1 and H2 merged by H3.
MergedHistory(t1, t2, t3) ==
    (H1 :> [When |-> t1, Parents |-> {}]) @@
    (H2 :> [When |-> t2, Parents |-> {}]) @@
    (H3 :> [When |-> t3, Parents |-> {H1, H2}])

\* The tag lists of at most n tags with names of `names` (a name names one
\* tag) on the commits H1, H2, H3, in every order of enumeration.
TagLists(names, n) ==
    UNION {
        {l \in [1..k -> [Name : names, Hash : {H1, H2, H3}]] :
            \A i, j \in 1..k : l[i].Name = l[j].Name => i = j}
        : k \in 0..n}

Config(rev, mult, snap, file, tag, stable) ==
    [Revision |-> rev, TimeMultiplier |-> mult, AddSnapshot |-> snap,
     FromFile |-> file, FromTag |-> tag, StableBranches |-> stable]

InitRun ==
    /\ conf = NoConf
    /\ gen = NewGen
    /\ pc = "idle"
    /\ tagIdx = 0
    /\ nextCalls = 0
    /\ cctag = <<>>
    /\ svts = <<>>
    /\ out = <<>>

\* One resolution of HEAD: every working-tree status, flag combination and
\* version file, over every list of at most MaxTags tags.
Init ==
    /\ statusClean \in BOOLEAN
    /\ headBranch = Master
    /\ headCommit = H3
    /\ commits = LinearHistory(100 * Day, 200 * Day, 300 * Day)
    /\ tagRefs \in TagLists({V120, V130, LatestTag}, MaxTags)
    /\ readErr = {}
    /\ versionFile \in {<<>>, <<FileBeta>>, <<FileGarbage>>}
    /\ loopVarShared \in BOOLEAN
    /\ \E snap, file, tag \in BOOLEAN :
         args = <<Config(HEAD, 1000, snap, file, tag, DefaultStable)>>
    /\ InitRun

Spec == Init /\ [][Next]_vars

\* The same resolution run twice on a clean tree, over every list of at
\* most MaxRepeatTags tags.
InitRepeat ==
    /\ statusClean = TRUE
    /\ headBranch = Master
    /\ headCommit = H3
    /\ commits = LinearHistory(100 * Day, 200 * Day, 300 * Day)
    /\ tagRefs \in TagLists({V100, V120, V130, LatestTag}, MaxRepeatTags)
    /\ readErr = {}
    /\ versionFile = <<>>
    /\ loopVarShared \in BOOLEAN
    /\ \E snap \in BOOLEAN :
         LET c == Config(HEAD, 1000, snap, FALSE, TRUE, DefaultStable)
         IN  args = <<c, c>>
    /\ InitRun

SpecRepeat == InitRepeat /\ [][Next]_vars

\* Two resolutions that differ in the target revision only, over commit
\* times a half year apart in every order, and every multiplier sign.
Times == {k * (secondsYear \div 2) : k \in 0..MaxHalfYears}

Multipliers == {0 - 1000, 0, 1, 1000}

InitBuild ==
    /\ statusClean = TRUE
    /\ headBranch = Master
    /\ headCommit = H3
    /\ \E t1, t2, t3 \in Times :
         commits \in {LinearHistory(t1, t2, t3), MergedHistory(t1, t2, t3)}
    /\ tagRefs = <<[Name |-> V120, Hash |-> H1]>>
    /\ readErr = {}
    /\ versionFile = <<>>
    /\ loopVarShared = TRUE
    /\ \E r1, r2 \in {H1, H2, HEAD}, m \in Multipliers :
         args = <<Config(r1, m, TRUE, FALSE, TRUE, DefaultStable),
                  Config(r2, m, TRUE, FALSE, TRUE, DefaultStable)>>
    /\ InitRun

SpecBuild == InitBuild /\ [][Next]_vars

\* One resolution per head branch name and stable-branch set.
InitBranch ==
    /\ statusClean \in BOOLEAN
    /\ headBranch \in {Master, MainUC, Dev, Feature, Build7, HEAD}
    /\ headCommit = H3
    /\ commits = LinearHistory(100 * Day, 200 * Day, 300 * Day)
    /\ tagRefs \in TagLists({V130}, 1)
    /\ readErr = {}
    /\ versionFile \in {<<>>, <<FileBeta>>, <<FileRelease>>}
    /\ loopVarShared = TRUE
    /\ \E tag \in BOOLEAN, stable \in {DefaultStable, <<>>, <<Dev>>} :
         args = <<Config(HEAD, 1000, TRUE, FALSE, tag, stable)>>
    /\ InitRun

SpecBranch == InitBranch /\ [][Next]_vars

\* One resolution of HEAD on a clean tree with tags required, over every
\* list of at most MaxTags tags and every set of positions at which reading
\* the tag fails.
InitTags ==
    /\ statusClean = TRUE
    /\ headBranch = Master
    /\ headCommit = H3
    /\ commits = LinearHistory(100 * Day, 200 * Day, 300 * Day)
    /\ tagRefs \in TagLists({V120, V130, LatestTag}, MaxTags)
    /\ readErr \in SUBSET (1..Len(tagRefs))
    /\ versionFile = <<>>
    /\ loopVarShared \in BOOLEAN
    /\ \E snap \in BOOLEAN :
         args = <<Config(HEAD, 1000, snap, FALSE, TRUE, DefaultStable)>>
    /\ InitRun

SpecTags == InitTags /\ [][Next]_vars

(***************************************************************************)
(* Properties.                                                             *)
(***************************************************************************)
Last(q) == q[Len(q)]

Returned == pc = "idle" /\ out # <<>>

SNAPSHOT == <<"S", "N", "A", "P", "S", "H", "O", "T">>

\* The target commit of the running (or last) invocation, <<>> if none.
Target == ResolveRevision(conf.Revision)

\* The tags on the target commit whose names parse as semantic versions.
ExactTags ==
    {i \in 1..Len(tagRefs) :
        <<tagRefs[i].Hash>> = Target /\ ParseTolerant(tagRefs[i].Name) # <<>>}

\* The tags whose names parse as semantic versions.
ParsingTags == {i \in 1..Len(tagRefs) : ParseTolerant(tagRefs[i].Name) # <<>>}

\* The version of the version file, <<>> when there is none.
FileVersion ==
    IF versionFile = <<>> THEN <<>> ELSE ParseTolerant(TrimSpace(versionFile[1]))

TagLookupErrors ==
    {"could not find tag for commit", "could not find version tag for SNAPSHOT",
     "object not found"}

\* C1: with a dirty working tree and AddSnapshot false the invocation never
\* gets past the cleanliness gate and returns an error and no Version,
\* whatever the tags and the version file are.
C1_DirtyTreeFails ==
    (~statusClean /\ ~conf.AddSnapshot) =>
        /\ pc \in {"idle", "NewGenerator"}
        /\ Returned => Last(out).Version = Nil /\ Last(out).Err # ""

C1_Witness ==
    /\ Returned
    /\ ~statusClean /\ ~conf.AddSnapshot
    /\ Last(out).Err = "repository is not clean and add snapshot config is false"
    /\ ExactTags # {}
    /\ FileVersion # <<>>

\* C2: when the tag lookup has run and some tag on the target commit has a
\* name that parses, the lookup succeeds with the version of such a tag as
\* gen.SemVer and leaves IsSnapshot as the cleanliness gate set it.
C2_ExactTagIsBase ==
    (tagIdx > 0 /\ ExactTags # {} /\ pc \in {"Generate", "idle"}) =>
        IF pc = "Generate"
        THEN /\ gen.SemVer \in {ParseTolerant(tagRefs[i].Name) : i \in ExactTags}
             /\ gen.IsSnapshot = ~statusClean
        ELSE Last(out).Err \notin TagLookupErrors

\* C3: when the tag lookup has run with AddSnapshot, no tag is on the target
\* commit and some tag name parses, gen.SemVer is a parsing tag's version
\* that no parsing tag's version exceeds, and IsSnapshot is set.
C3_HighestTagIsBase ==
    (/\ pc = "Generate"
     /\ tagIdx > 0
     /\ conf.AddSnapshot
     /\ \A i \in 1..Len(tagRefs) : <<tagRefs[i].Hash>> # Target
     /\ ParsingTags # {}) =>
        /\ gen.SemVer \in {ParseTolerant(tagRefs[i].Name) : i \in ParsingTags}
        /\ \A i \in ParsingTags : ~GT(ParseTolerant(tagRefs[i].Name)[1], gen.SemVer[1])
        /\ gen.IsSnapshot

\* C7: a Version returned for a dirty tree carries the build metadata
\* rev, <ordinal>, SNAPSHOT, <count> with count the decimal text of a
\* number from 0 to the number of commits.
C7_DirtySnapshotMetadata ==
    (Returned /\ ~statusClean /\ Last(out).Version # Nil) =>
        LET build == Last(out).Version[1].Semver.Build
        IN  /\ conf.AddSnapshot
            /\ Len(build) = 4
            /\ build[3] = SNAPSHOT
            /\ \E n \in 0..Cardinality(DOMAIN commits) : build[4] = FormatInt(n)

\* The base version came from the version file and the tree is dirty.
C7_Witness ==
    /\ Returned /\ ~statusClean /\ Last(out).Version # Nil
    /\ gen.VersionCommit = Nil
    /\ Last(out).Version[1].Semver.Build[3] = SNAPSHOT
    /\ tagRefs # <<>>

\* C8: Generate is only reached with a base version, and when neither the
\* version file nor any tag name parses the invocation returns an error and
\* no Version, under every flag combination.
C8_NoSourceFails ==
    /\ pc = "Generate" => gen.SemVer # Nil
    /\ (FileVersion = <<>> /\ ParsingTags = {}) =>
          /\ pc # "Generate"
          /\ Returned => Last(out).Version = Nil /\ Last(out).Err # ""

\* Tags are optional, snapshots allowed, nothing parses: the lookup of the
\* zero hash is what fails.
C8_Witness ==
    /\ Returned
    /\ FileVersion = <<>> /\ ParsingTags = {} /\ tagRefs # <<>>
    /\ ~conf.FromTag /\ conf.AddSnapshot
    /\ Last(out).Err = "object not found"

\* C9: when the version file parses and FromTag is false, the tags are never
\* enumerated, no version commit or date is set, and Generate starts from
\* the file's version with IsSnapshot as the cleanliness gate set it.
C9_FileOnly ==
    (FileVersion # <<>> /\ ~conf.FromTag) =>
        /\ pc \notin {"tagsNext", "getVersionByTag"}
        /\ tagIdx = 0 /\ cctag = <<>> /\ svts = <<>>
        /\ gen.VersionCommit = Nil /\ gen.VersionCommitDate = Nil
        /\ pc = "Generate" => gen.SemVer = FileVersion /\ gen.IsSnapshot = ~statusClean

C9_Witness ==
    /\ pc = "Generate"
    /\ FileVersion # <<>> /\ ~conf.FromTag
    /\ gen.SemVer[1].Pre # <<>>
    /\ ExactTags # {}
    /\ ~statusClean

Lower(t) == [i \in 1..Len(t) |-> ToLower(t[i])]

\* The branch name is in the stable set, letter case aside.
InStableSet(branch, stable) ==
    Lower(branch) \in {Lower(stable[i]) : i \in 1..Len(stable)}

\* C4 as amended: Generate, started on base version b, returns for a stable
\* head branch (any letter case) a Version with b's pre-release identifiers;
\* for a non-stable branch name that is a valid pre-release identifier a
\* Version with b's identifiers followed by one that reads as the branch
\* name; and for any other non-stable branch name an error and no Version.
C4_PreRelease ==
    [][pc = "Generate" =>
        LET base == gen.SemVer[1].Pre
            r    == Last(out')
        IN  /\ Len(out') = Len(out) + 1
            /\ IF InStableSet(headBranch, conf.StableBranches)
               THEN /\ r.Version # Nil
                    /\ r.Version[1].Semver.Pre = base
               ELSE IF NewPRVersion(headBranch) # <<>>
               THEN /\ r.Version # Nil
                    /\ Len(r.Version[1].Semver.Pre) = Len(base) + 1
                    /\ SubSeq(r.Version[1].Semver.Pre, 1, Len(base)) = base
                    /\ PRString(Last(r.Version[1].Semver.Pre)) = headBranch
               ELSE /\ r.Version = Nil
                    /\ r.Err # ""]_vars

\* C4 as stated: every non-stable branch name yields a Version with the
\* branch name appended to the base version's pre-release identifiers.
C4_Original ==
    [][pc = "Generate" =>
        LET base == gen.SemVer[1].Pre
            r    == Last(out')
        IN  /\ Len(out') = Len(out) + 1
            /\ r.Version # Nil
            /\ IF InStableSet(headBranch, conf.StableBranches)
               THEN r.Version[1].Semver.Pre = base
               ELSE /\ Len(r.Version[1].Semver.Pre) = Len(base) + 1
                    /\ SubSeq(r.Version[1].Semver.Pre, 1, Len(base)) = base
                    /\ PRString(Last(r.Version[1].Semver.Pre)) = headBranch]_vars

\* 2.0.0-beta on branch dev: the identifiers are beta, dev.
C4_Witness ==
    /\ Returned /\ Last(out).Version # Nil
    /\ headBranch = Dev
    /\ ~InStableSet(headBranch, conf.StableBranches)
    /\ Len(Last(out).Version[1].Semver.Pre) = 2
    /\ PRString(Last(out).Version[1].Semver.Pre[2]) = Dev

Max(a, b) == IF a >= b THEN a ELSE b

\* C5: the BuildID of a Version returned under a multiplier that is not
\* negative is the number of commits plus (elapsed * multiplier) /
\* secondsYear, truncated, with elapsed the target commit's time minus the
\* root commit's time clamped to at least 0 (so the time units are never
\* negative).
C5_ClampedBuildID ==
    (Returned /\ Last(out).Version # Nil /\ conf.TimeMultiplier >= 0) =>
        LET elapsed == Max(0, gen.CurrentCommitDate[1] - gen.InitialCommitDate[1])
        IN  Last(out).Version[1].BuildID =
                Cardinality(DOMAIN commits)
                + TruncMulDiv(elapsed, conf.TimeMultiplier, secondsYear)

\* Committer time of the commit a returned Version names.
WhenOf(r) == commits[r.Version[1].Commit].When

BothReturned ==
    /\ pc = "idle" /\ Len(out) = 2
    /\ out[1].Version # Nil /\ out[2].Version # Nil

\* C6 as amended: with a time multiplier that is not negative, of two
\* resolutions of the same repository that differ in the target revision
\* only, the one whose target commit has the larger committer time does
\* not get the smaller BuildID.
C6_MonotoneBuildID ==
    (BothReturned /\ conf.TimeMultiplier >= 0 /\ WhenOf(out[1]) <= WhenOf(out[2])) =>
        out[1].Version[1].BuildID <= out[2].Version[1].BuildID

\* C6 as stated: the same for every integer time multiplier.
C6_Original ==
    (BothReturned /\ WhenOf(out[1]) <= WhenOf(out[2])) =>
        out[1].Version[1].BuildID <= out[2].Version[1].BuildID

C6_Witness ==
    /\ BothReturned
    /\ conf.TimeMultiplier = 1000
    /\ WhenOf(out[1]) < WhenOf(out[2])
    /\ out[1].Version[1].BuildID < out[2].Version[1].BuildID

\* C10: on a clean tree with a parsing tag on the target commit, two
\* resolutions with the same configuration that both return a Version
\* return the same BuildID and the same Semver.
C10_Deterministic ==
    (BothReturned /\ statusClean /\ ExactTags # {}) =>
        /\ out[1].Version[1].BuildID = out[2].Version[1].BuildID
        /\ out[1].Version[1].Semver = out[2].Version[1].Semver

\* C11: when the tag lookup has succeeded without a parsing tag on the
\* target commit, gen.SemVer, gen.VersionCommit and gen.VersionCommitDate
\* all come from one and the same tag: some parsing tag has gen.SemVer as
\* its version and points at gen.VersionCommit, whose committer time is
\* gen.VersionCommitDate.
C11_OneTag ==
    (/\ pc = "Generate"
     /\ tagIdx > 0
     /\ (cctag = <<>> \/ ParseTolerant(cctag) = <<>>)) =>
        \E i \in ParsingTags :
            /\ gen.SemVer = ParseTolerant(tagRefs[i].Name)
            /\ gen.VersionCommit = <<tagRefs[i].Hash>>
            /\ gen.VersionCommitDate = <<commits[tagRefs[i].Hash].When>>

====
